---- MODULE Spec2Model ----
(***************************************************************************)
(* Run Update Relay of VeriVerse (src/server/websocket.ts): the in-memory  *)
(* subscription registry, the run cache, the background poll-and-diff      *)
(* loop and the broadcaster, together with the part of the browser client  *)
(* (AskPage.tsx, useWebSocket.ts) that decides whether a run is pushed     *)
(* over the persistent connection.                                         *)
(***************************************************************************)
EXTENDS Integers, Sequences, FiniteSets, TLC

(* ---------------------------------------------------------------------- *)
(* Bounds of the model                                                     *)
(* ---------------------------------------------------------------------- *)
\* pollActiveRuns() invocations that may be suspended at a fetch at once
MaxTicks == 1
\* eviction setTimeout callbacks that may be pending at once
MaxTimers == 2
\* invocations that may be suspended at once where ticks may overlap
MaxOverlap == 2
\* WebSocket objects of one page that may exist at once
MaxSockets == 2
\* reconnect setTimeout callbacks of one page that may be pending at once
MaxTimeouts == 1
\* getRun() calls of the page's poll interval that may be in flight at once
MaxFetches == 1

(* ---------------------------------------------------------------------- *)
(* Values                                                                  *)
(* ---------------------------------------------------------------------- *)
\* the server-side WebSocket objects
Conns == {"ws1", "ws2"}

\* run ids are strings, modelled as sequences of characters so that
\* String.prototype.startsWith can be computed
run_abc    == <<"r","u","n","_","a","b","c">>
run_xyz    == <<"r","u","n","_","x","y","z">>
local_1    == <<"l","o","c","a","l","_","1">>
demo_run_1 == <<"d","e","m","o","_","r","u","n","_","1">>
RunIds == {run_abc, run_xyz, local_1, demo_run_1}

\* the literal "demo_run_" of websocket.ts:148 and AskPage.tsx:100
DEMO_PREFIX == <<"d","e","m","o","_","r","u","n","_">>

\* JavaScript undefined (a property that is missing) and null
Undefined == <<"undefined">>

\* a runId that JSON.parse gives as a number, and the test for a string
num_7 == <<"number", 7>>
IsString(v) == v = <<>> \/ v[1] /= "number"
Null == [null |-> TRUE]

startsWith(str, prefix) ==
  /\ Len(str) >= Len(prefix)
  /\ SubSeq(str, 1, Len(prefix)) = prefix

\* a test that lets every value through
Truthy_always(v) == TRUE

\* JavaScript truthiness of a string-or-undefined value
Truthy(v) == v /= Undefined /\ v /= <<>>

Range(s) == {s[k] : k \in 1..Len(s)}

(* ---------------------------------------------------------------------- *)
(* Run states returned by GET /runs/{run_id} (shared/schema.ts RunState).  *)
(* confidence is kept in hundredths.                                       *)
(* ---------------------------------------------------------------------- *)
vote_up   == [user_id |-> "u1", vote |-> 1,  weight |-> 2, rationale |-> "ok"]
vote_down == [user_id |-> "u1", vote |-> -1, weight |-> 2, rationale |-> "ok"]
ev_web    == [tool_name |-> "web", content |-> "a"]
ev_web2   == [tool_name |-> "web", content |-> "b"]

RunState(st, conf, ans, vs, ev) ==
  [status |-> st, confidence |-> conf, provisional_answer |-> ans,
   votes |-> vs, evidence |-> ev]

S_base      == RunState("in_progress", 0, "", <<vote_up>>, <<ev_web>>)
S_status    == RunState("awaiting_votes", 0, "", <<vote_up>>, <<ev_web>>)
S_conf      == RunState("in_progress", 50, "", <<vote_up>>, <<ev_web>>)
S_answer    == RunState("in_progress", 0, "yes", <<vote_up>>, <<ev_web>>)
S_votes     == RunState("in_progress", 0, "", <<vote_down>>, <<ev_web>>)
S_evidence  == RunState("in_progress", 0, "", <<vote_up>>, <<ev_web2>>)
S_completed == RunState("completed", 90, "yes", <<vote_up>>, <<ev_web>>)

\* the states the verification service returns in the relay specifications
States == {S_base, S_conf}
\* ... and in the specification of a run that completes
RunStates == {S_base, S_completed}
\* the states used to exercise the change predicate field by field
DiffStates == {S_base, S_status, S_conf, S_answer, S_votes, S_evidence,
               S_completed}

(* ---------------------------------------------------------------------- *)
(* JSON.stringify, as a sequence of output tokens                          *)
(* ---------------------------------------------------------------------- *)
Quote(s) == "\"" \o s \o "\""

StringifyVote(v) ==
  << "{", "\"user_id\":", Quote(v.user_id), ",", "\"vote\":", ToString(v.vote),
     ",", "\"weight\":", ToString(v.weight), ",", "\"rationale\":",
     Quote(v.rationale), "}" >>

StringifyEvidence(e) ==
  << "{", "\"tool_name\":", Quote(e.tool_name), ",", "\"content\":",
     Quote(e.content), "}" >>

RECURSIVE JoinVotes(_)
JoinVotes(vs) ==
  IF vs = <<>> THEN <<>>
  ELSE IF Len(vs) = 1 THEN StringifyVote(vs[1])
  ELSE StringifyVote(vs[1]) \o <<",">> \o JoinVotes(Tail(vs))

RECURSIVE JoinEvidence(_)
JoinEvidence(es) ==
  IF es = <<>> THEN <<>>
  ELSE IF Len(es) = 1 THEN StringifyEvidence(es[1])
  ELSE StringifyEvidence(es[1]) \o <<",">> \o JoinEvidence(Tail(es))

StringifyVotes(vs) == <<"[">> \o JoinVotes(vs) \o <<"]">>
StringifyEvidenceList(es) == <<"[">> \o JoinEvidence(es) \o <<"]">>

StringifyRunState(s) ==
  << "{", "\"status\":", Quote(s.status), ",", "\"confidence\":",
     ToString(s.confidence), ",", "\"provisional_answer\":",
     Quote(s.provisional_answer), ",", "\"votes\":" >>
  \o StringifyVotes(s.votes) \o << ",", "\"evidence\":" >>
  \o StringifyEvidenceList(s.evidence) \o << "}" >>

\* JSON.stringify({type: "run_update", runId, data}) of websocket.ts:86-90;
\* the characters of runId are written between the quotes
StringifyEnvelope(runId, data) ==
  << "{", "\"type\":", Quote("run_update"), ",", "\"runId\":", "\"" >>
  \o runId \o << "\"", ",", "\"data\":" >> \o StringifyRunState(data)
  \o << "}" >>

(* ---------------------------------------------------------------------- *)
(* State                                                                   *)
(* ---------------------------------------------------------------------- *)
VARIABLES
  readyState,     \* ws.readyState of each server-side socket
  subscriptions,  \* Map<string, Set<WebSocket>>, entries in insertion order
  runCache,       \* Map<string, any>: run id -> last broadcast state
  ticks,          \* pollActiveRuns() invocations suspended at their await
  timers,         \* pending setTimeout(..., 5000) evictions, in firing order
  event,          \* the handler that ran last: what it sent, fetched, removed
  delivered,      \* history: per socket, the last message sent for each run
  recording,      \* whether this behaviour keeps the history
  pollIntervalId, \* websocket.ts:11: the handle of the poll timer, or null
  intervals,      \* the setInterval timers of the process that are armed
  upstream,       \* the state of run_abc at the verification service
  page,           \* an AskPage: its React state and the refs of its hook
  browser         \* the WebSocket objects and timers of that page

vars == <<readyState, subscriptions, runCache, ticks, timers, event,
          delivered, recording, pollIntervalId, intervals, upstream,
          page, browser>>

\* what the connection handlers and the poll engine never assign
elsewhere == <<pollIntervalId, intervals, upstream, page, browser>>

\* what the page never assigns
server == <<readyState, subscriptions, runCache, ticks, timers, delivered,
            recording, pollIntervalId, intervals, upstream>>

\* a detail of the history: kept as <<x>> in a behaviour that keeps the
\* history, and left out as <<>> in the others
kept(x) == IF recording THEN <<x>> ELSE <<>>

NoSends == [c \in Conns |-> <<>>]
NoClients == [c \in Conns |-> 0]

(* ---------------------------------------------------------------------- *)
(* Map and Set primitives.  A Set<WebSocket> is kept as the number of     *)
(* times it holds each socket; a Map as its entries in insertion order.   *)
(* ---------------------------------------------------------------------- *)
\* an Array.prototype.push in place of Set.prototype.add
SetAdd_push(clients, ws) == [clients EXCEPT ![ws] = @ + 1]

\* Set.prototype.add
SetAdd(clients, ws) ==
  IF clients[ws] > 0 THEN clients ELSE [clients EXCEPT ![ws] = 1]

\* a delete that removes nothing
SetDelete_noop(clients, ws) == clients

\* Set.prototype.delete
SetDelete(clients, ws) == [clients EXCEPT ![ws] = 0]

RECURSIVE Sum(_, _)
Sum(f, S) ==
  IF S = {} THEN 0
  ELSE LET x == CHOOSE y \in S : TRUE IN f[x] + Sum(f, S \ {x})

\* Set.prototype.size
SetSize(clients) == Sum(clients, Conns)

\* subscriptions.has(runId)
Has(subs, runId) == \E k \in 1..Len(subs) : subs[k].runId = runId

\* subscriptions.get(runId); an absent key yields no clients
Get(subs, runId) ==
  IF Has(subs, runId)
  THEN subs[CHOOSE k \in 1..Len(subs) : subs[k].runId = runId].clients
  ELSE NoClients

\* subscriptions.delete(runId)
MapDelete(subs, runId) == SelectSeq(subs, LAMBDA e : e.runId /= runId)

\* replaces the client set of an existing key (the Set is mutated in place)
MapUpdate(subs, runId, clients) ==
  [k \in 1..Len(subs) |->
     IF subs[k].runId = runId THEN [runId |-> runId, clients |-> clients]
     ELSE subs[k]]

\* Array.from(subscriptions.keys())
MapKeys(subs) == [k \in 1..Len(subs) |-> subs[k].runId]

\* a delete that leaves the snapshot in the cache
CacheDelete_noop(cache, runId) == cache

\* runCache.delete(runId)
CacheDelete(cache, runId) == [r \in DOMAIN cache \ {runId} |-> cache[r]]

\* runCache.set(runId, state)
CacheSet(cache, runId, state) ==
  [r \in DOMAIN cache \cup {runId} |-> IF r = runId THEN state ELSE cache[r]]

(* ---------------------------------------------------------------------- *)
(* Subscription registry                                                   *)
(* ---------------------------------------------------------------------- *)
subscribeToRun(subs, runId, ws) ==
  LET created == IF Has(subs, runId) THEN subs
                 ELSE Append(subs, [runId |-> runId, clients |-> NoClients])
  IN MapUpdate(created, runId, SetAdd(Get(created, runId), ws))

\* unsubscribeFromRun without the runCache.delete
unsubscribeFromRun_keepCache(subs, cache, runId, ws) ==
  IF ~Has(subs, runId) THEN [subscriptions |-> subs, runCache |-> cache]
  ELSE LET clients == SetDelete(Get(subs, runId), ws)
       IN IF SetSize(clients) = 0
          THEN [subscriptions |-> MapDelete(subs, runId), runCache |-> cache]
          ELSE [subscriptions |-> MapUpdate(subs, runId, clients),
                runCache |-> cache]

\* yields the registry and the cache after the call
unsubscribeFromRun(subs, cache, runId, ws) ==
  IF ~Has(subs, runId) THEN [subscriptions |-> subs, runCache |-> cache]
  ELSE LET clients == SetDelete(Get(subs, runId), ws)
       IN IF SetSize(clients) = 0
          THEN [subscriptions |-> MapDelete(subs, runId),
                runCache |-> CacheDelete(cache, runId)]
          ELSE [subscriptions |-> MapUpdate(subs, runId, clients),
                runCache |-> cache]

\* the subscriptions.forEach sweep of ws.on("close"), from entry k onwards
RECURSIVE closeSweep(_, _, _, _)
closeSweep(subs, cache, ws, k) ==
  IF k > Len(subs) THEN [subscriptions |-> subs, runCache |-> cache]
  ELSE LET runId == subs[k].runId
           clients == SetDelete(subs[k].clients, ws)
       IN IF SetSize(clients) = 0
          THEN closeSweep(MapDelete(subs, runId), CacheDelete(cache, runId),
                          ws, k)
          ELSE closeSweep(MapUpdate(subs, runId, clients), cache, ws, k + 1)

getSubscriptionCount(subs, runId) == SetSize(Get(subs, runId))

getActiveRunIds(subs) ==
  SelectSeq(MapKeys(subs), LAMBDA runId : SetSize(Get(subs, runId)) > 0)

(* ---------------------------------------------------------------------- *)
(* Broadcaster                                                             *)
(* ---------------------------------------------------------------------- *)
\* ws.send(message), once for each time clients.forEach visits ws
RECURSIVE sendLoop(_, _)
sendLoop(visits, message) ==
  IF visits = 0 THEN <<>> ELSE <<message>> \o sendLoop(visits - 1, message)

\* the readyState test inverted: only sockets that are not open are sent to
broadcastRunUpdate_notOpen(subs, rs, runId, data) ==
  [ws \in Conns |->
     IF rs[ws] /= "OPEN" /\ Get(subs, runId)[ws] > 0
     THEN <<StringifyEnvelope(runId, data)>> ELSE <<>>]

\* a broadcast to every open socket of the server, subscribed or not
broadcastRunUpdate_all(subs, rs, runId, data) ==
  [ws \in Conns |->
     IF rs[ws] = "OPEN" THEN <<StringifyEnvelope(runId, data)>> ELSE <<>>]

\* the messages each socket is sent by broadcastRunUpdate(runId, data)
broadcastRunUpdate(subs, rs, runId, data) ==
  LET clients == Get(subs, runId)
      message == StringifyEnvelope(runId, data)
  IN IF SetSize(clients) = 0 THEN NoSends
     ELSE [ws \in Conns |->
             IF rs[ws] = "OPEN" THEN sendLoop(clients[ws], message)
             ELSE <<>>]

(* ---------------------------------------------------------------------- *)
(* Poll-and-diff engine                                                    *)
(* ---------------------------------------------------------------------- *)
\* outcomes of fetch(`${FASTAPI_BASE}/runs/${runId}`)
Responses(bodies) ==
  {[kind |-> "network_error"], [kind |-> "non_2xx"]}
  \cup {[kind |-> "ok", body |-> b] : b \in bodies}

\* a fetch that answers a failure with a placeholder state
pollRunStatus_placeholder(response) ==
  IF response.kind = "ok" THEN response.body ELSE S_base

\* pollRunStatus(): null on a network error and on a non-2xx answer
pollRunStatus(response) ==
  IF response.kind = "network_error" THEN Null
  ELSE IF response.kind = "non_2xx" THEN Null
  ELSE response.body

\* the comparison of the evidence lists left out
hasRunStateChanged_noEvidence(cache, runId, newState) ==
  IF runId \notin DOMAIN cache THEN TRUE
  ELSE LET cached == cache[runId]
       IN IF cached.status /= newState.status THEN TRUE
          ELSE IF cached.confidence /= newState.confidence THEN TRUE
          ELSE IF cached.provisional_answer /= newState.provisional_answer
               THEN TRUE
          ELSE IF StringifyVotes(cached.votes) /= StringifyVotes(newState.votes)
               THEN TRUE
          ELSE FALSE

hasRunStateChanged(cache, runId, newState) ==
  IF runId \notin DOMAIN cache THEN TRUE
  ELSE LET cached == cache[runId]
       IN IF cached.status /= newState.status THEN TRUE
          ELSE IF cached.confidence /= newState.confidence THEN TRUE
          ELSE IF cached.provisional_answer /= newState.provisional_answer
               THEN TRUE
          ELSE IF StringifyVotes(cached.votes) /= StringifyVotes(newState.votes)
               THEN TRUE
          ELSE IF StringifyEvidenceList(cached.evidence)
                    /= StringifyEvidenceList(newState.evidence) THEN TRUE
          ELSE FALSE

\* no run is skipped
isSkipped_never(runId) == FALSE

\* the skip of websocket.ts:148
isSkipped(runId) == startsWith(runId, DEMO_PREFIX)

\* runId.startsWith(...) of websocket.ts:148 raises a TypeError when the
\* key is not a string
throws(runId) == ~IsString(runId)

\* the for-loop over the run ids it has not visited yet: it passes over the
\* skipped ids and stops at the first id it fetches; <<>> when the loop
\* ends, at the end of the ids or by a throw
RECURSIVE advance(_)
advance(ids) ==
  IF ids = <<>> THEN <<>>
  ELSE IF throws(ids[1]) THEN <<>>
  ELSE IF isSkipped(ids[1]) THEN advance(Tail(ids))
  ELSE ids

\* how the loop over ids goes on: to an await, to its end, or to a throw
\* that rejects the promise of pollActiveRuns()
RECURSIVE outcome(_)
outcome(ids) ==
  IF ids = <<>> THEN "done"
  ELSE IF throws(ids[1]) THEN "threw"
  ELSE IF isSkipped(ids[1]) THEN outcome(Tail(ids))
  ELSE "awaiting"

\* an invocation suspended at `await pollRunStatus(rest[1])`; Tail(rest) are
\* the ids the loop has still to visit; where the history is kept, ids is
\* <<the active run ids it read when it began>> and fetched are the ids it
\* has fetched so far; answer is <<the body the verification service has
\* sent>> while that response is on its way
Task(ids, rest, fetched) ==
  [ids |-> ids, rest |-> rest, fetched |-> fetched, hung |-> FALSE,
   answer |-> <<>>]

\* the history of an invocation: the active run ids it read and the ids it
\* has fetched
Read(ids, fetched) == [ids |-> ids, fetched |-> fetched]

\* the fetch the loop issues when it goes on over ids
issued(ids) == IF advance(ids) = <<>> THEN <<>> ELSE <<advance(ids)[1]>>

\* the suspended invocations after invocation n went on over ids
resume(tasks, n, ids) ==
  IF advance(ids) = <<>>
  THEN SubSeq(tasks, 1, n - 1) \o SubSeq(tasks, n + 1, Len(tasks))
  ELSE [tasks EXCEPT ![n] = Task(tasks[n].ids, advance(ids),
                                 IF tasks[n].ids = <<>> THEN <<>>
                                 ELSE tasks[n].fetched \o issued(ids))]

\* the history after a handler sent the messages of sent
record(hist, sent, runId) ==
  [ws \in Conns |->
     IF sent[ws] = <<>> THEN hist[ws]
     ELSE [r \in DOMAIN hist[ws] \cup {runId} |->
             IF r = runId THEN sent[ws][Len(sent[ws])] ELSE hist[ws][r]]]

(* ---------------------------------------------------------------------- *)
(* The poll timer.  Handles are positive; null is NoTimer.                 *)
(* ---------------------------------------------------------------------- *)
\* the initial value of pollIntervalId: null
NoTimer == 0

\* the handle setInterval returns: one that no armed timer has
NewTimer(armed) ==
  CHOOSE h \in 1..(Cardinality(armed) + 1) :
    h \notin armed /\ \A g \in 1..(h - 1) : g \in armed

\* a start that arms a timer without clearing the one it replaces
startBackgroundPolling_noClear(id, armed) ==
  [pollIntervalId |-> NewTimer(armed),
   intervals |-> armed \cup {NewTimer(armed)}]

\* startBackgroundPolling(): clears the timer it holds, arms a new one
startBackgroundPolling(id, armed) ==
  LET cleared == IF id /= NoTimer THEN armed \ {id} ELSE armed
  IN [pollIntervalId |-> NewTimer(cleared),
      intervals |-> cleared \cup {NewTimer(cleared)}]

\* stopBackgroundPolling()
stopBackgroundPolling(id, armed) ==
  IF id /= NoTimer
  THEN [pollIntervalId |-> NoTimer, intervals |-> armed \ {id}]
  ELSE [pollIntervalId |-> id, intervals |-> armed]

(* ---------------------------------------------------------------------- *)
(* Connection handlers                                                     *)
(* ---------------------------------------------------------------------- *)
\* wss.on("connection"): a new socket, no implicit subscriptions
Connection(ws) ==
  /\ readyState[ws] = "CLOSED"
  /\ readyState' = [readyState EXCEPT ![ws] = "OPEN"]
  /\ event' = [op |-> "connection", conn |-> ws]
  /\ delivered' = [delivered EXCEPT ![ws] = <<>>]
  /\ UNCHANGED <<subscriptions, runCache, ticks, timers, recording,
                 elsewhere>>

\* the transport starts closing: readyState leaves OPEN before the close
\* event is dispatched
TransportClosing(ws) ==
  /\ readyState[ws] = "OPEN"
  /\ readyState' = [readyState EXCEPT ![ws] = "CLOSING"]
  /\ event' = [op |-> "other"]
  /\ UNCHANGED <<subscriptions, runCache, ticks, timers, delivered, recording,
                 elsewhere>>

\* ws.on("error"): the handler writes a log line.  The ws library emits the
\* event on a socket it has taken out of OPEN and is destroying, and emits
\* close for it afterwards
OnError(ws) ==
  /\ readyState[ws] = "OPEN"
  /\ readyState' = [readyState EXCEPT ![ws] = "CLOSING"]
  /\ event' = [op |-> "error", conn |-> ws]
  /\ UNCHANGED <<subscriptions, runCache, ticks, timers, delivered, recording,
                 elsewhere>>

\* ws.on("close")
OnClose(ws) ==
  /\ readyState[ws] \in {"OPEN", "CLOSING"}
  /\ readyState' = [readyState EXCEPT ![ws] = "CLOSED"]
  /\ LET after == closeSweep(subscriptions, runCache, ws, 1)
     IN /\ subscriptions' = after.subscriptions
        /\ runCache' = after.runCache
        /\ event' = [op |-> "close", conn |-> ws,
                     uncached |-> DOMAIN runCache \ DOMAIN after.runCache]
  /\ UNCHANGED <<ticks, timers, delivered, recording,
                 elsewhere>>

\* the frames a peer can send about the run ids of ids: text that JSON.parse
\* rejects, or an object with a type and a runId that may be missing or empty
Frames(ids) ==
  {[parse |-> "error"]}
  \cup {[parse |-> "ok", type |-> t, runId |-> r] :
          t \in {"subscribe", "unsubscribe"}, r \in ids}
  \cup {[parse |-> "ok", type |-> "subscribe", runId |-> Undefined],
        [parse |-> "ok", type |-> "unsubscribe", runId |-> <<>>],
        [parse |-> "ok", type |-> "ping", runId |-> run_abc]}

\* the body of ws.on("message"); fromPage tells the history whether the
\* frame was sent by the useWebSocket hook of an AskPage
receive(ws, frame, fromPage) ==
  /\ readyState[ws] = "OPEN"
  /\ IF frame.parse = "error"
     THEN /\ event' = [op |-> "ignored", at |-> kept(ws), frame |-> kept(frame)]
          /\ UNCHANGED <<subscriptions, runCache>>
     ELSE IF frame.type = "subscribe" /\ Truthy(frame.runId)
     THEN /\ subscriptions' = subscribeToRun(subscriptions, frame.runId, ws)
          /\ event' = [op |-> "subscribe", conn |-> ws, runId |-> frame.runId,
                       dup |-> Get(subscriptions, frame.runId)[ws] > 0,
                       fromPage |-> fromPage, at |-> kept(ws),
                       frame |-> kept(frame)]
          /\ UNCHANGED runCache
     ELSE IF frame.type = "unsubscribe" /\ Truthy(frame.runId)
     THEN LET after == unsubscribeFromRun(subscriptions, runCache,
                                          frame.runId, ws)
          IN /\ subscriptions' = after.subscriptions
             /\ runCache' = after.runCache
             /\ event' = [op |-> "unsubscribe", conn |-> ws,
                          runId |-> frame.runId,
                          uncached |-> DOMAIN runCache \ DOMAIN after.runCache,
                          at |-> kept(ws), frame |-> kept(frame)]
     ELSE /\ event' = [op |-> "ignored", at |-> kept(ws), frame |-> kept(frame)]
          /\ UNCHANGED <<subscriptions, runCache>>
  /\ UNCHANGED <<readyState, ticks, timers, delivered, recording,
                 elsewhere>>

\* ws.on("message") for a frame of any peer
OnMessage(ws, frame) == receive(ws, frame, FALSE)

(* ---------------------------------------------------------------------- *)
(* Browser client: AskPage hands the run id to useWebSocket               *)
(* ---------------------------------------------------------------------- *)
\* AskPage.tsx:100 and :128
isDemoRun(runId) == startsWith(runId, DEMO_PREFIX)

\* the runId option of AskPage.tsx:36
hookRunId(runId) == IF isDemoRun(runId) THEN Null ELSE runId

\* the enabled option of AskPage.tsx:38
hookEnabled(runId, isCompleted) == ~isDemoRun(runId) /\ ~isCompleted

\* useWebSocket connect(): a socket is opened only with a run id and enabled
hookConnects(runId, isCompleted) ==
  hookRunId(runId) /= Null /\ hookEnabled(runId, isCompleted)

\* ws.onopen of a page whose run id is runId: the socket has just opened, so
\* it is in no subscriber set, and subscribe{runId} reaches the server's
\* message handler
ClientSubscribe(ws, runId) ==
  /\ hookConnects(runId, FALSE)
  /\ ~(\E k \in 1..Len(subscriptions) : subscriptions[k].clients[ws] > 0)
  /\ receive(ws, [parse |-> "ok", type |-> "subscribe",
                  runId |-> hookRunId(runId)], TRUE)

(* ---------------------------------------------------------------------- *)
(* Poll timer, fetch completion and eviction                               *)
(* ---------------------------------------------------------------------- *)
\* the setInterval callback of startBackgroundPolling, which an armed timer
\* runs; at most limit invocations of pollActiveRuns are kept suspended at
\* once
TimerFire(limit) ==
  LET ids == getActiveRunIds(subscriptions)
  IN /\ intervals /= {}
     /\ Len(ticks) < limit
     /\ IF Len(ids) > 0
        THEN /\ ticks' = resume(Append(ticks, Task(kept(ids), ids, <<>>)),
                                 Len(ticks) + 1, ids)
             /\ event' = [op |-> "tick", fetched |-> issued(ids),
                          history |-> kept(Read(ids, issued(ids))),
                          outcome |-> kept(outcome(ids))]
        ELSE /\ ticks' = ticks
             /\ event' = [op |-> "tick", fetched |-> <<>>,
                          history |-> kept(Read(ids, <<>>)),
                          outcome |-> kept("idle")]
     /\ UNCHANGED <<readyState, subscriptions, runCache, timers, delivered,
                    recording, elsewhere>>

\* the fetch of invocation n never settles
FetchHang(n) ==
  /\ n \in 1..Len(ticks)
  /\ ~ticks[n].hung
  /\ ticks' = [ticks EXCEPT ![n].hung = TRUE]
  /\ event' = [op |-> "other"]
  /\ UNCHANGED <<readyState, subscriptions, runCache, timers, delivered,
                 recording, elsewhere>>

\* the fetch of invocation n settles: the rest of the loop body runs, then
\* the loop goes on to its next await; at most limit evictions stay pending
FetchReturn(n, response, limit) ==
  /\ n \in 1..Len(ticks)
  /\ ~ticks[n].hung
  /\ LET runId == ticks[n].rest[1]
         state == pollRunStatus(response)
         changed == state /= Null /\ hasRunStateChanged(runCache, runId, state)
         completed == changed /\ state.status = "completed"
         sent == IF changed
                 THEN broadcastRunUpdate(subscriptions, readyState, runId,
                                         state)
                 ELSE NoSends
     IN /\ completed => Len(timers) < limit
        /\ runCache' = IF changed THEN CacheSet(runCache, runId, state)
                       ELSE runCache
        /\ timers' = IF completed THEN Append(timers, runId) ELSE timers
        /\ ticks' = resume(ticks, n, Tail(ticks[n].rest))
        /\ event' = [op |-> "poll", runId |-> runId, state |-> state,
                     broadcasts |-> IF changed THEN 1 ELSE 0, sent |-> sent,
                     fetched |-> issued(Tail(ticks[n].rest)),
                     kind |-> kept(response.kind),
                     history |-> IF ticks[n].ids = <<>> THEN <<>>
                                 ELSE <<Read(ticks[n].ids[1],
                                             ticks[n].fetched
                                               \o issued(Tail(ticks[n].rest)))>>,
                     outcome |-> kept(outcome(Tail(ticks[n].rest)))]
        /\ delivered' = IF recording THEN record(delivered, sent, runId)
                        ELSE delivered
  /\ UNCHANGED <<readyState, subscriptions, recording,
                 elsewhere>>

\* an eviction that spares the snapshot of a run that still has subscribers
EvictFire_ifIdle ==
  /\ timers /= <<>>
  /\ runCache' = IF SetSize(Get(subscriptions, Head(timers))) = 0
                 THEN CacheDelete(runCache, Head(timers)) ELSE runCache
  /\ timers' = Tail(timers)
  /\ event' = [op |-> "evict", runId |-> Head(timers),
               uncached |-> DOMAIN runCache \ DOMAIN runCache']
  /\ UNCHANGED <<readyState, subscriptions, ticks, delivered, recording,
                 elsewhere>>

\* the setTimeout callback of websocket.ts:160-162
EvictFire ==
  /\ timers /= <<>>
  /\ runCache' = CacheDelete(runCache, Head(timers))
  /\ timers' = Tail(timers)
  /\ event' = [op |-> "evict", runId |-> Head(timers),
               uncached |-> DOMAIN runCache \cap {Head(timers)}]
  /\ UNCHANGED <<readyState, subscriptions, ticks, delivered, recording,
                 elsewhere>>

\* a call of startBackgroundPolling()
StartPolling ==
  /\ LET after == startBackgroundPolling(pollIntervalId, intervals)
     IN /\ pollIntervalId' = after.pollIntervalId
        /\ intervals' = after.intervals
  /\ event' = [op |-> "start", running |-> pollIntervalId /= NoTimer]
  /\ UNCHANGED <<readyState, subscriptions, runCache, ticks, timers,
                 delivered, recording, upstream, page, browser>>

\* a call of stopBackgroundPolling()
StopPolling ==
  /\ LET after == stopBackgroundPolling(pollIntervalId, intervals)
     IN /\ pollIntervalId' = after.pollIntervalId
        /\ intervals' = after.intervals
  /\ event' = [op |-> "stop", running |-> pollIntervalId /= NoTimer]
  /\ UNCHANGED <<readyState, subscriptions, runCache, ticks, timers,
                 delivered, recording, upstream, page, browser>>

\* the verification service moves run_abc to the state s
UpstreamChange(s) ==
  /\ s /= upstream
  /\ upstream' = s
  /\ event' = [op |-> "other"]
  /\ UNCHANGED <<readyState, subscriptions, runCache, ticks, timers,
                 delivered, recording, pollIntervalId, intervals, page,
                 browser>>

\* the fetch of invocation n is answered with the state the run has at the
\* verification service
FetchSettle(n) ==
  FetchReturn(n, [kind |-> "ok", body |-> upstream], MaxTimers)

\* the verification service moves run_abc on from its first state
UpstreamAdvance == upstream = S_base /\ UpstreamChange(S_conf)

\* the verification service answers the fetch of invocation n with the
\* state the run has now; the response is on its way
ServiceAnswers(n) ==
  /\ n \in 1..Len(ticks)
  /\ ticks[n].answer = <<>>
  /\ ticks' = [ticks EXCEPT ![n].answer = <<upstream>>]
  /\ event' = [op |-> "other"]
  /\ UNCHANGED <<readyState, subscriptions, runCache, timers, delivered,
                 recording, elsewhere>>

\* the response of the verification service reaches invocation n
FetchArrives(n, limit) ==
  /\ n \in 1..Len(ticks)
  /\ ticks[n].answer /= <<>>
  /\ FetchReturn(n, [kind |-> "ok", body |-> ticks[n].answer[1]], limit)

(* ---------------------------------------------------------------------- *)
(* Browser client: the AskPage component and its useWebSocket hook.        *)
(* A client is [page |-> React state and refs, browser |-> sockets and     *)
(* timers].  A handler runs, then React renders and runs the effects whose *)
(* dependencies changed, until no state update is left.                    *)
(* ---------------------------------------------------------------------- *)
\* runId: null (AskPage.tsx:15)
NullId == <<"null">>

\* useRef(null)
NoRef == 0

Put(f, k, v) == [x \in DOMAIN f \cup {k} |-> IF x = k THEN v ELSE f[x]]
Drop(f, k) == [x \in DOMAIN f \ {k} |-> f[x]]

\* a demo flag that is never set
pageIsDemo_never(runId) == FALSE

\* AskPage.tsx:100 and :128 for the run id the page is given
pageIsDemo(runId) == isDemoRun(runId)

\* the values a render reads: the props of useWebSocket (AskPage.tsx:35-39)
\* and the dependencies of the polling effect (AskPage.tsx:85)
deps(p) ==
  [hookRunId |-> IF p.isDemo THEN NullId ELSE p.runId,
   enabled |-> ~p.isDemo /\ ~p.isCompleted,
   runId |-> p.runId, isDemo |-> p.isDemo, isCompleted |-> p.isCompleted,
   isConnected |-> p.isConnected]

\* the page after its first render with no run id
FirstPage ==
  LET p == [mounted |-> TRUE, runId |-> NullId, isDemo |-> FALSE,
            isCompleted |-> FALSE, isConnected |-> FALSE,
            runIdRef |-> NullId, enabledRef |-> TRUE, wsRef |-> NoRef,
            reconnectTimeoutRef |-> NoRef, pollingRef |-> NoRef]
  IN [x \in DOMAIN p \cup {"seen"} |-> IF x = "seen" THEN deps(p) ELSE p[x]]

\* fetches are the getRun() calls of the poll interval that are in flight
NoBrowser ==
  [sockets |-> <<>>, timeouts |-> <<>>, polls |-> {}, fetches |-> <<>>]

\* setIsConnected(v): a state update of an unmounted component is dropped
setIsConnected(p, v) == IF p.mounted THEN [p EXCEPT !.isConnected = v] ELSE p

\* the object new WebSocket(wsUrl) returns
NewSocket(used) == NewTimer(used)

\* if (pollingRef.current) { clearInterval(...); pollingRef.current = null }
clearPolling(c) ==
  IF c.page.pollingRef /= NoRef
  THEN [c EXCEPT !.browser.polls = @ \ {c.page.pollingRef},
                 !.page.pollingRef = NoRef]
  ELSE c

\* the then-branch of the polling effect, AskPage.tsx:63-72
armPolling(c) ==
  LET polls == IF c.page.pollingRef /= NoRef
               THEN c.browser.polls \ {c.page.pollingRef}
               ELSE c.browser.polls
  IN [c EXCEPT !.browser.polls = polls \cup {NewTimer(polls)},
               !.page.pollingRef = NewTimer(polls)]

\* disconnect(), useWebSocket.ts:40-59
disconnect(c) ==
  LET p == c.page
      timeouts == IF p.reconnectTimeoutRef /= NoRef
                  THEN Drop(c.browser.timeouts, p.reconnectTimeoutRef)
                  ELSE c.browser.timeouts
      sockets == IF p.wsRef /= NoRef
                 THEN [c.browser.sockets EXCEPT ![p.wsRef] =
                         [readyState |-> "CLOSING",
                          sub |-> IF /\ p.runIdRef /= NullId
                                     /\ @.readyState = "OPEN"
                                     /\ @.sub = p.runIdRef
                                  THEN NullId ELSE @.sub,
                          unsub |-> IF p.runIdRef /= NullId
                                       /\ @.readyState = "OPEN"
                                    THEN p.runIdRef ELSE @.unsub,
                          forRun |-> @.forRun]]
                 ELSE c.browser.sockets
  IN [page |-> setIsConnected([p EXCEPT !.reconnectTimeoutRef = NoRef,
                                        !.wsRef = NoRef], FALSE),
      browser |-> [c.browser EXCEPT !.timeouts = timeouts,
                                    !.sockets = sockets]]

\* connect(), useWebSocket.ts:61-81
connect(c) ==
  LET p == c.page
      ws == NewSocket(DOMAIN c.browser.sockets)
  IN IF p.runIdRef = NullId \/ ~p.enabledRef THEN disconnect(c)
     ELSE IF p.wsRef /= NoRef
             /\ c.browser.sockets[p.wsRef].readyState = "OPEN" THEN c
     ELSE [c EXCEPT !.browser.sockets =
                      Put(@, ws, [readyState |-> "CONNECTING",
                                  sub |-> NullId, unsub |-> NullId,
                                  forRun |-> p.runIdRef]),
                    !.page.wsRef = ws]

\* a close handler that schedules no reconnect
onclose_noReconnect(c, ws) ==
  [page |-> setIsConnected([c.page EXCEPT !.wsRef = NoRef], FALSE),
   browser |-> [c.browser EXCEPT !.sockets = Drop(@, ws)]]

\* ws.onclose, useWebSocket.ts:110-122, of the socket ws, which is gone
\* afterwards
onclose(c, ws) ==
  LET p == setIsConnected([c.page EXCEPT !.wsRef = NoRef], FALSE)
      t == NewTimer(DOMAIN c.browser.timeouts
                      \cup ({p.reconnectTimeoutRef} \ {NoRef}))
  IN IF p.enabledRef /\ p.runIdRef /= NullId
     THEN [page |-> [p EXCEPT !.reconnectTimeoutRef = t],
           browser |-> [c.browser EXCEPT
                          !.sockets = Drop(@, ws),
                          !.timeouts = Put(@, t,
                            [forRun |-> c.browser.sockets[ws].forRun])]]
     ELSE [page |-> p, browser |-> [c.browser EXCEPT !.sockets = Drop(@, ws)]]

\* ws.onopen, useWebSocket.ts:82-94
onopen(c, ws) ==
  [page |-> setIsConnected(c.page, TRUE),
   browser |-> [c.browser EXCEPT !.sockets[ws] =
                  [readyState |-> "OPEN",
                   sub |-> c.page.runIdRef,
                   unsub |-> @.unsub,
                   forRun |-> @.forRun]]]

\* ws.onmessage, useWebSocket.ts:96-108, for a run_update of runId, with
\* handleWebSocketUpdate of AskPage.tsx:24-33 as onUpdate
\* a getRun() call in flight when the state of a run_update is applied has
\* been overtaken by it
onmessage(c, runId, completed) ==
  IF runId = c.page.runIdRef
  THEN clearPolling([c EXCEPT !.page.isCompleted =
                                IF c.page.mounted THEN completed ELSE @,
                              !.browser.fetches =
                                [k \in DOMAIN @ |->
                                   [@[k] EXCEPT !.overtaken = TRUE]]])
  ELSE c

\* one render of a mounted page and the effects that follow it: first the
\* cleanups of the effects whose dependencies changed, in the order of the
\* hooks, then their bodies (useWebSocket.ts:28-34 and :133-143,
\* AskPage.tsx:55-85)
commit(c) ==
  LET now == deps(c.page)
      was == c.page.seen
      hook == now.hookRunId /= was.hookRunId \/ now.enabled /= was.enabled
      poll == \/ now.runId /= was.runId
              \/ now.isDemo /= was.isDemo
              \/ now.isCompleted /= was.isCompleted
              \/ now.isConnected /= was.isConnected
      c1 == IF hook THEN disconnect(c) ELSE c
      c2 == IF poll THEN clearPolling(c1) ELSE c1
      c3 == [c2 EXCEPT !.page.runIdRef = now.hookRunId,
                       !.page.enabledRef = now.enabled]
      c4 == IF ~hook THEN c3
            ELSE IF now.enabled /\ now.hookRunId /= NullId THEN connect(c3)
            ELSE disconnect(c3)
      c5 == IF ~poll THEN c4
            ELSE IF /\ now.runId /= NullId
                    /\ ~now.isDemo
                    /\ ~now.isCompleted
                    /\ ~now.isConnected THEN armPolling(c4)
            ELSE clearPolling(c4)
  IN [c5 EXCEPT !.page.seen = now]

\* React renders again while an effect has updated the state; the client
\* is bound to a name so that it is computed once
RECURSIVE settle(_)
settle(client) ==
  CHOOSE after \in
    {IF ~c.page.mounted \/ deps(c.page) = c.page.seen THEN c
     ELSE settle(commit(c)) : c \in {client}} : TRUE

\* the client as it is
Client == [page |-> page, browser |-> browser]

\* a handler has left the client as c
Becomes(client, what) ==
  \E c \in {client} :
    /\ Cardinality(DOMAIN c.browser.sockets) <= MaxSockets
    /\ Cardinality(DOMAIN c.browser.timeouts) <= MaxTimeouts
    /\ page' = c.page
    /\ browser' = c.browser
    /\ event' = [op |-> "page", what |-> what]
    /\ UNCHANGED server

\* the effect of AskPage.tsx:123-132: the URL names the run runId
Navigate(runId) ==
  /\ page.mounted
  /\ runId /= page.runId
  /\ Becomes(settle([Client EXCEPT !.page.runId = runId,
                                   !.page.isDemo = pageIsDemo(runId)]),
             "navigate")

\* handleSubmit up to its first await, AskPage.tsx:87-99
Submit ==
  /\ page.mounted
  /\ page.runId /= NullId
  /\ Becomes(settle(clearPolling([Client EXCEPT !.page.isCompleted = FALSE,
                                                !.page.runId = NullId,
                                                !.page.isDemo = FALSE])),
             "submit")

\* handleSubmit after createPrompt() answered, AskPage.tsx:100-115
Created(runId) ==
  /\ page.mounted
  /\ page.runId = NullId
  /\ Becomes(settle([Client EXCEPT !.page.isDemo = pageIsDemo(runId),
                                   !.page.runId = runId,
                                   !.page.isCompleted = FALSE]),
             "created")

\* the status of the state createDemoRunState() makes up, api.ts:39-41
createDemoRunState == "completed"

\* what the CRUD layer may answer to GET /api/runs/:id: the state of the
\* run, by its status, or a failure (a network error or a non-2xx status)
Answers ==
  {[ok |-> TRUE, status |-> "queued"], [ok |-> TRUE, status |-> "completed"],
   [ok |-> FALSE, status |-> "none"]}

\* getRun(runId), api.ts:120-137, when the CRUD layer would answer with
\* response: the status of the state it resolves with
getRun(runId, response) ==
  IF startsWith(runId, DEMO_PREFIX) THEN createDemoRunState
  ELSE IF response.ok THEN response.status
  ELSE createDemoRunState

\* pollRunStatus() after getRun() answered, AskPage.tsx:42-51; the step is
\* "failed" when the state is the one getRun made up for a failed fetch
FetchResult(response) ==
  /\ page.mounted
  /\ page.runId /= NullId
  /\ LET completed == getRun(page.runId, response) = "completed"
         c == [Client EXCEPT !.page.isCompleted = completed]
     IN Becomes(settle(IF completed \/ page.isDemo THEN clearPolling(c)
                       ELSE c),
                IF response.ok \/ startsWith(page.runId, DEMO_PREFIX)
                THEN "fetched" ELSE "failed")

\* the poll interval fires, AskPage.tsx:70-72: pollRunStatus(runId, false)
\* calls getRun(runId) and waits for it
PollFire(limit) ==
  /\ page.mounted
  /\ browser.polls /= {}
  /\ Len(browser.fetches) < limit
  /\ Becomes([Client EXCEPT !.browser.fetches =
                              Append(@, [runId |-> page.runId,
                                         overtaken |-> FALSE])],
             "interval")

\* pollRunStatus(runId, false) after its getRun() answered, AskPage.tsx:42-51,
\* for the call k of the poll interval
PollResult(k, response) ==
  /\ page.mounted
  /\ k \in 1..Len(browser.fetches)
  /\ LET completed == getRun(browser.fetches[k].runId, response) = "completed"
         c == [Client EXCEPT !.page.isCompleted = completed,
                             !.browser.fetches =
                               SubSeq(@, 1, k - 1) \o SubSeq(@, k + 1, Len(@))]
     IN Becomes(settle(IF completed THEN clearPolling(c) ELSE c),
                IF response.ok THEN "polled" ELSE "failed")

\* the page is left: the cleanups of useWebSocket.ts:140-142 and
\* AskPage.tsx:79-84
Unmount ==
  /\ page.mounted
  /\ Becomes(clearPolling(disconnect([Client EXCEPT !.page.mounted = FALSE])),
             "unmount")

\* the open event of the socket ws
SocketOpen(ws) ==
  /\ ws \in DOMAIN browser.sockets
  /\ browser.sockets[ws].readyState = "CONNECTING"
  /\ Becomes(settle(onopen(Client, ws)), "open")

\* the close event of the socket ws: the end of a close() the page asked
\* for, a connection that failed, or a connection the network dropped
SocketClose(ws) ==
  /\ ws \in DOMAIN browser.sockets
  /\ Becomes(settle(onclose(Client, ws)), "close")

\* the message event of the socket ws for a run_update of the run it
\* subscribed to
SocketMessage(ws, completed) ==
  /\ ws \in DOMAIN browser.sockets
  /\ browser.sockets[ws].readyState \in {"OPEN", "CLOSING"}
  /\ browser.sockets[ws].sub /= NullId
  /\ Becomes(settle(onmessage(Client, browser.sockets[ws].sub, completed)),
             "message")

\* the reconnect timeout t fires, useWebSocket.ts:118-120
ReconnectFire(t) ==
  /\ t \in DOMAIN browser.timeouts
  /\ Becomes(settle(connect([Client EXCEPT !.browser.timeouts = Drop(@, t)])),
             "reconnect")

(* ---------------------------------------------------------------------- *)
(* Specifications                                                          *)
(* ---------------------------------------------------------------------- *)
\* setupWebSocket() has run, which started the polling, and nobody is
\* connected
Start ==
  /\ readyState = [c \in Conns |-> "CLOSED"]
  /\ subscriptions = <<>>
  /\ runCache = <<>>
  /\ ticks = <<>>
  /\ timers = <<>>
  /\ event = [op |-> "other"]
  /\ delivered = [c \in Conns |-> <<>>]
  /\ LET after == startBackgroundPolling(NoTimer, {})
     IN /\ pollIntervalId = after.pollIntervalId
        /\ intervals = after.intervals
  /\ upstream = S_base
  /\ page = FirstPage
  /\ browser = NoBrowser

\* The relay with two sockets and two runs of the verification service
\* whose state moves between two unfinished states.
Init == Start /\ recording = FALSE

Next ==
  \/ \E ws \in Conns : Connection(ws)
  \/ \E ws \in Conns : TransportClosing(ws)
  \/ \E ws \in Conns : OnClose(ws)
  \/ \E ws \in Conns, frame \in Frames({run_abc, run_xyz}) :
       OnMessage(ws, frame)
  \/ \E ws \in Conns, runId \in {run_abc, run_xyz} : ClientSubscribe(ws, runId)
  \/ TimerFire(MaxTicks)
  \/ \E n \in 1..MaxTicks, response \in Responses(States) :
       FetchReturn(n, response, MaxTimers)

Spec == Init /\ [][Next]_vars

\* The relay with two sockets, a demo run and a run the CRUD layer made up
\* because the verification service was unreachable.
NextDemo ==
  \/ \E ws \in Conns : Connection(ws)
  \/ \E ws \in Conns : OnClose(ws)
  \/ \E ws \in Conns, frame \in Frames({demo_run_1, local_1}) :
       OnMessage(ws, frame)
  \/ \E ws \in Conns, runId \in {demo_run_1, local_1} :
       ClientSubscribe(ws, runId)
  \/ TimerFire(MaxTicks)
  \/ \E n \in 1..MaxTicks, response \in Responses(States) :
       FetchReturn(n, response, MaxTimers)

SpecDemo == Init /\ [][NextDemo]_vars

\* The relay with one socket and three runs, where a fetch may never settle.
NextHang ==
  \/ Connection("ws1")
  \/ OnClose("ws1")
  \/ \E frame \in Frames({run_abc, run_xyz, demo_run_1}) :
       OnMessage("ws1", frame)
  \/ TimerFire(MaxTicks)
  \/ \E n \in 1..MaxTicks : FetchHang(n)
  \/ \E n \in 1..MaxTicks, response \in Responses({S_base}) :
       FetchReturn(n, response, MaxTimers)

SpecHang == Init /\ [][NextHang]_vars

\* The relay with two sockets and one run that completes, with the history
\* of what each socket was sent.
InitRun == Start /\ recording = TRUE

NextRun ==
  \/ \E ws \in Conns : Connection(ws)
  \/ \E ws \in Conns : TransportClosing(ws)
  \/ \E ws \in Conns : OnClose(ws)
  \/ \E ws \in Conns, frame \in Frames({run_abc}) : OnMessage(ws, frame)
  \/ TimerFire(MaxTicks)
  \/ \E n \in 1..MaxTicks, response \in Responses(RunStates) :
       FetchReturn(n, response, MaxTimers)
  \/ EvictFire

SpecRun == InitRun /\ [][NextRun]_vars

\* The relay with one socket and one run whose state changes field by field.
NextDiff ==
  \/ Connection("ws1")
  \/ TransportClosing("ws1")
  \/ OnClose("ws1")
  \/ \E frame \in Frames({run_abc}) : OnMessage("ws1", frame)
  \/ TimerFire(MaxTicks)
  \/ \E n \in 1..MaxTicks, response \in Responses(DiffStates) :
       FetchReturn(n, response, MaxTimers)
  \/ EvictFire

SpecDiff == Init /\ [][NextDiff]_vars

\* The relay with one socket and one run, where the polling is started and
\* stopped at any time.
NextTimer ==
  \/ Connection("ws1")
  \/ OnClose("ws1")
  \/ \E frame \in Frames({run_abc}) : OnMessage("ws1", frame)
  \/ TimerFire(MaxTicks)
  \/ \E n \in 1..MaxTicks, response \in Responses(States) :
       FetchReturn(n, response, MaxTimers)
  \/ StartPolling
  \/ StopPolling

SpecTimer == Init /\ [][NextTimer]_vars

\* The relay with one socket whose frames name a run, a demo run and a
\* runId that is a number, with the history.
NextTypes ==
  \/ Connection("ws1")
  \/ OnClose("ws1")
  \/ \E frame \in Frames({run_abc, demo_run_1, num_7}) :
       OnMessage("ws1", frame)
  \/ TimerFire(MaxTicks)
  \/ \E n \in 1..MaxTicks, response \in Responses({S_base}) :
       FetchReturn(n, response, MaxTimers)

SpecTypes == InitRun /\ [][NextTypes]_vars

\* The relay with one socket and one run, where the timer fires while
\* earlier invocations of pollActiveRuns are still suspended at their fetch.
NextOverlap ==
  \/ Connection("ws1")
  \/ OnClose("ws1")
  \/ \E frame \in Frames({run_abc}) : OnMessage("ws1", frame)
  \/ TimerFire(MaxOverlap)
  \/ \E n \in 1..MaxOverlap, response \in Responses(States) :
       FetchReturn(n, response, MaxTimers)

SpecOverlap == Init /\ [][NextOverlap]_vars

\* The relay with one socket and two runs whose fetches may fail, with the
\* history.
NextFail ==
  \/ Connection("ws1")
  \/ TransportClosing("ws1")
  \/ OnClose("ws1")
  \/ \E frame \in Frames({run_abc, run_xyz}) : OnMessage("ws1", frame)
  \/ TimerFire(MaxTicks)
  \/ \E n \in 1..MaxTicks, response \in Responses(States) :
       FetchReturn(n, response, MaxTimers)

SpecFail == InitRun /\ [][NextFail]_vars

\* The relay with two sockets and two runs, where a socket may fail with an
\* error before it closes.
NextClose ==
  \/ \E ws \in Conns : Connection(ws)
  \/ \E ws \in Conns : OnError(ws)
  \/ \E ws \in Conns : OnClose(ws)
  \/ \E ws \in Conns, frame \in Frames({run_abc, run_xyz}) :
       OnMessage(ws, frame)
  \/ TimerFire(MaxTicks)
  \/ \E n \in 1..MaxTicks, response \in Responses({S_base}) :
       FetchReturn(n, response, MaxTimers)

SpecClose == Init /\ [][NextClose]_vars

\* The relay with one socket and one run that the verification service
\* moves on once, where the timer fires while earlier fetches are still in
\* flight and each response carries the state the run had when the service
\* answered; with the history.
NextOrder ==
  \/ Connection("ws1")
  \/ OnClose("ws1")
  \/ \E frame \in Frames({run_abc}) : OnMessage("ws1", frame)
  \/ TimerFire(MaxOverlap)
  \/ \E n \in 1..MaxOverlap : ServiceAnswers(n)
  \/ \E n \in 1..MaxOverlap : FetchArrives(n, MaxTimers)
  \/ UpstreamAdvance

SpecOrder == InitRun /\ [][NextOrder]_vars

\* The relay with two sockets that subscribe to one run, which completes,
\* and never unsubscribe: a socket leaves the run's set only by closing.
\* With the history, which starts anew when a socket connects.
NextEvict ==
  \/ \E ws \in Conns : Connection(ws)
  \/ \E ws \in Conns : OnClose(ws)
  \/ \E ws \in Conns :
       OnMessage(ws, [parse |-> "ok", type |-> "subscribe", runId |-> run_abc])
  \/ TimerFire(MaxTicks)
  \/ \E n \in 1..MaxTicks, response \in Responses(RunStates) :
       FetchReturn(n, response, MaxTimers)
  \/ EvictFire

SpecEvict == InitRun /\ [][NextEvict]_vars

\* The relay with two clients: the frames of ws1 carry a runId that is a
\* number, the frames of ws2 name a run.  With the history.
NextAbort ==
  \/ \E ws \in Conns : Connection(ws)
  \/ \E ws \in Conns : OnClose(ws)
  \/ \E frame \in Frames({num_7}) : OnMessage("ws1", frame)
  \/ \E frame \in Frames({run_abc}) : OnMessage("ws2", frame)
  \/ TimerFire(MaxTicks)
  \/ \E n \in 1..MaxTicks, response \in Responses({S_base}) :
       FetchReturn(n, response, MaxTimers)

SpecAbort == InitRun /\ [][NextAbort]_vars

\* One AskPage in a browser: the user opens runs by URL, submits claims and
\* leaves the page, while sockets open, close and deliver updates.
PageRuns == {run_abc, run_xyz, demo_run_1}

NextPage ==
  \/ \E runId \in PageRuns : Navigate(runId)
  \/ Submit
  \/ \E runId \in PageRuns : Created(runId)
  \/ \E response \in Answers : FetchResult(response)
  \/ Unmount
  \/ \E ws \in 1..MaxSockets : SocketOpen(ws)
  \/ \E ws \in 1..MaxSockets : SocketClose(ws)
  \/ \E ws \in 1..MaxSockets, completed \in BOOLEAN :
       SocketMessage(ws, completed)
  \/ \E t \in 1..(MaxTimeouts + 1) : ReconnectFire(t)

SpecPage == Init /\ [][NextPage]_vars

\* The page opened by URL for one of two runs, where a pending reconnect
\* timeout fires and the server accepts the connections: a socket that is
\* connecting opens.
ReconnectRuns == {run_abc, run_xyz}

NextReconnect ==
  \/ \E runId \in ReconnectRuns : Navigate(runId)
  \/ \E response \in Answers : FetchResult(response)
  \/ \E ws \in 1..MaxSockets : SocketOpen(ws)
  \/ \E ws \in 1..MaxSockets : SocketClose(ws)
  \/ \E ws \in 1..MaxSockets, completed \in BOOLEAN :
       SocketMessage(ws, completed)
  \/ \E t \in 1..(MaxTimeouts + 1) : ReconnectFire(t)

\* The page opened by URL for a run, where the poll interval fires and the
\* answers to its getRun() calls arrive after any delay.
NextFallback ==
  \/ \E runId \in ReconnectRuns : Navigate(runId)
  \/ \E ws \in 1..MaxSockets : SocketOpen(ws)
  \/ \E ws \in 1..MaxSockets : SocketClose(ws)
  \/ \E ws \in 1..MaxSockets, completed \in BOOLEAN :
       SocketMessage(ws, completed)
  \/ \E t \in 1..(MaxTimeouts + 1) : ReconnectFire(t)
  \/ PollFire(MaxFetches)
  \/ \E k \in 1..MaxFetches, response \in Answers : PollResult(k, response)

SpecFallback == Init /\ [][NextFallback]_vars

SpecReconnect ==
  /\ Init
  /\ [][NextReconnect]_vars
  /\ WF_vars(\E t \in 1..(MaxTimeouts + 1) : ReconnectFire(t))
  /\ WF_vars(\E ws \in 1..MaxSockets : SocketOpen(ws))

\* The relay with two sockets and one run whose state at the verification
\* service moves between two unfinished states; every fetch is answered
\* with that state.  The timer keeps firing and every fetch settles.
NextLive ==
  \/ \E ws \in Conns : Connection(ws)
  \/ \E ws \in Conns : OnClose(ws)
  \/ \E ws \in Conns, frame \in Frames({run_abc}) : OnMessage(ws, frame)
  \/ TimerFire(MaxTicks)
  \/ \E n \in 1..MaxTicks : FetchSettle(n)
  \/ \E s \in States : UpstreamChange(s)

SpecLive ==
  /\ InitRun
  /\ [][NextLive]_vars
  /\ WF_vars(TimerFire(MaxTicks))
  /\ WF_vars(\E n \in 1..MaxTicks : FetchSettle(n))

(* ---------------------------------------------------------------------- *)
(* Properties                                                              *)
(* ---------------------------------------------------------------------- *)
Members(subs, runId) == {ws \in Conns : Get(subs, runId)[ws] > 0}

\* C1: subscribe is idempotent.  However often a socket subscribes to a run,
\* the run's subscriber set holds it exactly once, getSubscriptionCount
\* counts it once, and a broadcast sends it exactly one run_update.
C1_IdempotentSubscribe ==
  /\ \A k \in 1..Len(subscriptions), ws \in Conns :
       subscriptions[k].clients[ws] <= 1
  /\ \A runId \in RunIds :
       getSubscriptionCount(subscriptions, runId)
         = Cardinality(Members(subscriptions, runId))
  /\ event.op = "subscribe" =>
       Get(subscriptions, event.runId)[event.conn] = 1
  /\ event.op = "poll" =>
       \A ws \in Conns :
         /\ Len(event.sent[ws]) <= 1
         /\ (event.broadcasts = 1 /\ readyState[ws] = "OPEN"
             /\ ws \in Members(subscriptions, event.runId))
            => Len(event.sent[ws]) = 1

\* a socket that was already subscribed to the run has subscribed again
C1_Witness ==
  /\ event.op = "subscribe"
  /\ event.dup
  /\ getSubscriptionCount(subscriptions, event.runId) = 1

\* C2: cleanup on empty.  Right after the step in which the last subscriber
\* of a run unsubscribes or its socket closes, the run is not among the
\* active run ids, the registry has no entry for it and the cache has no
\* snapshot of it.
C2_CleanupOnEmpty ==
  [][\A runId \in RunIds :
       (/\ Members(subscriptions, runId) /= {}
        /\ Members(subscriptions', runId) = {})
       => /\ runId \notin Range(getActiveRunIds(subscriptions'))
          /\ ~Has(subscriptions', runId)
          /\ runId \notin DOMAIN runCache']_vars

\* a socket that was the last subscriber of two runs with snapshots closed
C2_Witness ==
  /\ event.op = "close"
  /\ Cardinality(event.uncached) = 2
  /\ subscriptions = <<>>

\* C6: a broadcast for a run sends one run_update envelope to every socket
\* that is subscribed to the run and open, sends nothing to any other socket
\* (subscribed elsewhere, or no longer open), and leaves the registry as
\* it was.
C6_BroadcastTargets ==
  [][(event'.op = "poll" /\ event'.broadcasts = 1) =>
       /\ subscriptions' = subscriptions
       /\ \A ws \in Conns :
            event'.sent[ws] =
              IF ws \in Members(subscriptions, event'.runId)
                 /\ readyState[ws] = "OPEN"
              THEN <<StringifyEnvelope(event'.runId, event'.state)>>
              ELSE <<>>]_vars

\* a broadcast reached one socket and passed over an open socket that is
\* subscribed to another run only
C6_Witness ==
  /\ event.op = "poll"
  /\ event.broadcasts = 1
  /\ \E a, b \in Conns :
       /\ event.sent[a] /= <<>>
       /\ event.sent[b] = <<>>
       /\ readyState[b] = "OPEN"
       /\ \E other \in RunIds \ {event.runId} :
            b \in Members(subscriptions, other)

\* C3: in every reachable state a snapshot is cached for a run only if the
\* run has at least one subscriber.
C3_CacheOnlyWhileSubscribed ==
  \A runId \in DOMAIN runCache : Members(subscriptions, runId) /= {}

SameFive(a, b) ==
  /\ a.status = b.status
  /\ a.confidence = b.confidence
  /\ a.provisional_answer = b.provisional_answer
  /\ a.votes = b.votes
  /\ a.evidence = b.evidence

\* C4: change suppression.  A fetched state equal to the snapshot in status,
\* confidence, provisional_answer, votes and evidence causes no broadcast and
\* leaves the cache as it is; a fetched state that differs in one of the
\* five, or the first state fetched when there is no snapshot, causes exactly
\* one broadcast (one run_update to each open subscriber) and becomes the
\* snapshot.
C4_ChangeSuppression ==
  [][(event'.op = "poll" /\ event'.state /= Null) =>
       LET runId == event'.runId
           new == event'.state
       IN IF runId \in DOMAIN runCache /\ SameFive(runCache[runId], new)
          THEN /\ event'.broadcasts = 0
               /\ event'.sent = NoSends
               /\ runCache' = runCache
          ELSE /\ event'.broadcasts = 1
               /\ runId \in DOMAIN runCache'
               /\ runCache'[runId] = new
               /\ \A ws \in Members(subscriptions, runId) :
                    readyState[ws] = "OPEN" =>
                      event'.sent[ws] = <<StringifyEnvelope(runId, new)>>]_vars

\* a poll fetched the state that is cached, for a run with an open
\* subscriber, and nothing was sent
C4_Witness ==
  /\ event.op = "poll"
  /\ event.state /= Null
  /\ event.broadcasts = 0
  /\ event.runId \in DOMAIN runCache
  /\ runCache[event.runId] = event.state
  /\ \E ws \in Members(subscriptions, event.runId) : readyState[ws] = "OPEN"

\* the run_update that carries the cached snapshot of runId
Snapshot(runId) == StringifyEnvelope(runId, runCache[runId])

\* C5: whenever a snapshot is cached for a run, every socket that
\* is subscribed to the run and open has been sent a run_update carrying
\* exactly that snapshot, sockets that subscribed after it was cached
\* included.
C5_SnapshotDeliveredToAll ==
  \A runId \in DOMAIN runCache :
    \A ws \in Members(subscriptions, runId) :
      readyState[ws] = "OPEN" =>
        /\ runId \in DOMAIN delivered[ws]
        /\ delivered[ws][runId] = Snapshot(runId)

\* What the code does keep of C5: the step that caches a snapshot for a run
\* sends a run_update carrying exactly that snapshot to every socket that is
\* subscribed to the run and open at that moment, and a step in which a
\* socket subscribes sends nothing.
C5_SnapshotDeliveredWhenCached ==
  [][/\ \A runId \in RunIds :
          (/\ runId \in DOMAIN runCache'
           /\ (runId \in DOMAIN runCache => runCache'[runId] /= runCache[runId]))
          => \A ws \in Members(subscriptions, runId) :
               readyState[ws] = "OPEN" =>
                 /\ runId \in DOMAIN delivered'[ws]
                 /\ delivered'[ws][runId]
                      = StringifyEnvelope(runId, runCache'[runId])
     /\ event'.op = "subscribe" => delivered' = delivered]_vars

\* a socket has just subscribed to a run whose snapshot another open
\* subscriber was sent, and has itself been sent nothing for the run
C5_Witness ==
  /\ event.op = "subscribe"
  /\ ~event.dup
  /\ event.runId \in DOMAIN runCache
  /\ event.runId \notin DOMAIN delivered[event.conn]
  /\ \E ws \in Members(subscriptions, event.runId) \ {event.conn} :
       /\ readyState[ws] = "OPEN"
       /\ event.runId \in DOMAIN delivered[ws]
       /\ delivered[ws][event.runId] = Snapshot(event.runId)

\* C7: a failed fetch for one run does not keep the other runs of the same
\* tick from being fetched.  A fetch that failed with a network error or a
\* non-2xx answer has settled, and the loop has moved on in the same step; so
\* the claim is that no invocation sits at a fetch that never settles while
\* it still holds a run it has to fetch.
C7_FailureIsolated ==
  \A n \in 1..Len(ticks) :
    ticks[n].hung => advance(Tail(ticks[n].rest)) = <<>>

\* C8: for a run id that starts with demo_run_ the poll engine never issues
\* a fetch, never writes a cache entry and never broadcasts, however many
\* sockets are subscribed to it.
C8_DemoNeverPolled ==
  /\ \A n \in 1..Len(ticks) : ~startsWith(ticks[n].rest[1], DEMO_PREFIX)
  /\ event.op \in {"tick", "poll"} =>
       \A k \in 1..Len(event.fetched) :
         ~startsWith(event.fetched[k], DEMO_PREFIX)
  /\ \A runId \in DOMAIN runCache : ~startsWith(runId, DEMO_PREFIX)
  /\ event.op = "poll" => ~startsWith(event.runId, DEMO_PREFIX)

\* a tick ran while both sockets were subscribed to a demo run that comes
\* first in the registry: it passed over the demo run
C8_Witness ==
  /\ event.op = "tick"
  /\ Len(subscriptions) = 2
  /\ subscriptions[1].runId = demo_run_1
  /\ Members(subscriptions, demo_run_1) = Conns
  /\ event.fetched = <<local_1>>

\* the prefix of the run ids that POST /api/prompts makes up (routes.ts:449)
LOCAL_PREFIX == <<"l","o","c","a","l","_">>

IsLocalOrDemo(runId) ==
  startsWith(runId, DEMO_PREFIX) \/ startsWith(runId, LOCAL_PREFIX)

\* C9: for every run id that marks a local or demo run (local_<claim id> as
\* well as demo_run_) the page never subscribes over the persistent
\* connection and the server never passes the id to the external fetch.
C9_LocalAndDemoExcluded ==
  /\ (event.op = "subscribe" /\ event.fromPage) => ~IsLocalOrDemo(event.runId)
  /\ \A n \in 1..Len(ticks) : ~IsLocalOrDemo(ticks[n].rest[1])

\* C10: post-completion eviction.  The step that broadcasts a completed
\* state for a run schedules an eviction for it, and right after that
\* eviction fires the cache has no snapshot of the run, with or without
\* subscribers.
C10_PostCompletionEviction ==
  [][/\ (/\ event'.op = "poll"
         /\ event'.broadcasts = 1
         /\ event'.state.status = "completed")
        => timers' = Append(timers, event'.runId)
     /\ (timers /= <<>> /\ timers' = Tail(timers))
        => Head(timers) \notin DOMAIN runCache'
     /\ event'.op = "evict" => timers /= <<>> /\ timers' = Tail(timers)]_vars

\* an eviction fired and removed the snapshot of a run that still has an
\* open subscriber
C10_Witness ==
  /\ event.op = "evict"
  /\ event.uncached = {event.runId}
  /\ \E ws \in Members(subscriptions, event.runId) : readyState[ws] = "OPEN"
  /\ event.runId \notin DOMAIN runCache

\* the state of the relay proper
relay == <<readyState, subscriptions, runCache, ticks, timers>>

\* C16: at most one poll timer is armed after any sequence of start and stop
\* calls, and it is the one pollIntervalId holds; a stop when no timer is
\* running changes nothing; and no tick starts while polling is stopped.
C16_OnePollTimer ==
  [][/\ Cardinality(intervals') <= 1
     /\ intervals' = {pollIntervalId'} \ {NoTimer}
     /\ (event'.op = "stop" /\ pollIntervalId = NoTimer) =>
          UNCHANGED <<relay, pollIntervalId, intervals>>
     /\ event'.op = "tick" => pollIntervalId /= NoTimer]_vars

\* polling was stopped, stopped once more, and a fetch of an earlier tick is
\* still in flight
C16_Witness ==
  /\ event.op = "stop"
  /\ ~event.running
  /\ intervals = {}
  /\ ticks /= <<>>

\* a frame that is no well-formed control message: text that is not JSON,
\* a type other than subscribe and unsubscribe, or no runId
Malformed(frame) ==
  IF frame.parse = "error" THEN TRUE
  ELSE \/ frame.type \notin {"subscribe", "unsubscribe"}
       \/ frame.runId \in {Undefined, <<>>}

\* C15: a malformed control message is ignored.  The step that handles it
\* leaves the registry and the cache as they were, the socket that sent it
\* stays open, and no socket changes its readyState.
C15_MalformedIgnored ==
  [][(event'.op \in {"subscribe", "unsubscribe", "ignored"}
        /\ Malformed(event'.frame[1]))
     => /\ subscriptions' = subscriptions
        /\ runCache' = runCache
        /\ readyState' = readyState
        /\ readyState'[event'.at[1]] = "OPEN"]_vars

\* a socket that is subscribed to a run with a snapshot, next to another
\* subscribed socket, has sent a frame that parses but is no control message
C15_Witness ==
  /\ event.op = "ignored"
  /\ event.frame[1].parse = "ok"
  /\ runCache /= <<>>
  /\ \E runId \in RunIds : Members(subscriptions, runId) = Conns

\* C12: poll ticks are strictly sequential.  No invocation of
\* pollActiveRuns starts while another is suspended at a fetch, so no run
\* has two fetches in flight.
C12_TicksSequential ==
  /\ Len(ticks) <= 1
  /\ \A m, n \in 1..Len(ticks) : ticks[m].rest[1] = ticks[n].rest[1] => m = n

\* whether the poll loop treats runId as a demo run
IsDemo(runId) == IsString(runId) /\ startsWith(runId, DEMO_PREFIX)

\* the run ids of the registry that have a subscriber
Subscribed(subs) ==
  {subs[k].runId : k \in {j \in 1..Len(subs) : SetSize(subs[j].clients) > 0}}

\* C19: a tick fetches only run ids that had a subscriber when it read the
\* active run ids, and when it has ended it has fetched each of them that
\* is no demo run exactly once; a timer fire that finds no subscribed run
\* fetches nothing.
C19_OneFetchPerActiveRun ==
  /\ event.op = "tick" =>
       /\ Range(event.history[1].ids) = Subscribed(subscriptions)
       /\ event.history[1].ids = <<>> => (event.fetched = <<>> /\ ticks = <<>>)
  /\ event.op \in {"tick", "poll"} =>
       LET read == event.history[1]
       IN /\ Range(read.fetched) \subseteq Range(read.ids)
          /\ \A i, j \in 1..Len(read.fetched) :
               read.fetched[i] = read.fetched[j] => i = j
          /\ \A i \in 1..Len(read.fetched) : ~IsDemo(read.fetched[i])
          /\ event.outcome[1] \in {"done", "threw"} =>
               read.fetched = SelectSeq(read.ids, LAMBDA r : ~IsDemo(r))

\* the fetch the loop issues next when ids are left to visit
NextFetch(ids) ==
  LET left == SelectSeq(ids, LAMBDA r : ~IsDemo(r))
  IN IF left = <<>> THEN <<>> ELSE <<left[1]>>

\* C20: a fetch that fails, by a network error or a non-2xx answer, leaves
\* the cache and the registry as they were, sends nothing to any socket,
\* schedules nothing, and the loop goes on to the next run without a throw.
C20_FailedFetchIsSilent ==
  [][(event'.op = "poll" /\ event'.kind[1] \in {"network_error", "non_2xx"})
     => /\ runCache' = runCache
        /\ subscriptions' = subscriptions
        /\ timers' = timers
        /\ event'.broadcasts = 0
        /\ \A ws \in Conns : event'.sent[ws] = <<>>
        /\ event'.outcome[1] /= "threw"
        /\ \E n \in 1..Len(ticks) :
             /\ ticks[n].rest[1] = event'.runId
             /\ event'.fetched = NextFetch(Tail(ticks[n].rest))]_vars

\* the fetch for a run with a snapshot and an open subscriber got a non-2xx
\* answer, and the loop went on to fetch the next run
C20_Witness ==
  /\ event.op = "poll"
  /\ event.kind[1] = "non_2xx"
  /\ event.runId \in DOMAIN runCache
  /\ \E ws \in Members(subscriptions, event.runId) : readyState[ws] = "OPEN"
  /\ event.fetched /= <<>>

\* the socket is open and subscribed to run_abc
Live(ws) == readyState[ws] = "OPEN" /\ ws \in Members(subscriptions, run_abc)

\* the last run_update the socket was sent for run_abc carries the state s
LastSent(ws, s) ==
  /\ run_abc \in DOMAIN delivered[ws]
  /\ delivered[ws][run_abc] = StringifyEnvelope(run_abc, s)

\* C17: eventual delivery.  If from some point on a socket stays open and
\* subscribed to run_abc and the state of run_abc at the verification
\* service stays s, then from some point on the last run_update the socket
\* was sent for run_abc carries s.
C17_EventualDelivery ==
  \A ws \in Conns, s \in States :
    <>[](Live(ws) /\ upstream = s) => <>[]LastSent(ws, s)

\* the sockets of the page that are connecting or open
LiveSockets ==
  {ws \in DOMAIN browser.sockets :
     browser.sockets[ws].readyState \in {"CONNECTING", "OPEN"}}

\* the page shows a run of the verification service that is not completed
Watching ==
  /\ page.mounted
  /\ page.runId /= NullId
  /\ ~IsDemo(page.runId)
  /\ ~page.isCompleted

\* a socket of the page is open and subscribed to the run the page shows
Connected ==
  \E ws \in DOMAIN browser.sockets :
    /\ browser.sockets[ws].readyState = "OPEN"
    /\ browser.sockets[ws].sub = page.runId

\* C11: single active delivery path.  While the page shows a non-demo run
\* that is not completed, either a socket of the page is open and subscribed
\* to the run or the fallback poll interval is armed, and never both.
C11_SingleDeliveryPath ==
  Watching => (Connected /= (browser.polls /= {}))

\* C13: cancellation on teardown and on a change of the run id.  After the
\* page is unmounted no reconnect timer is pending and no socket is
\* connecting or open; and every pending reconnect timer was scheduled by
\* the close event of a socket that was opened for the run id the hook has
\* now.
C13_NoReconnectForOldSubscription ==
  /\ ~page.mounted => (DOMAIN browser.timeouts = {} /\ LiveSockets = {})
  /\ \A t \in DOMAIN browser.timeouts :
       browser.timeouts[t].forRun = page.runIdRef

\* C14: terminal state.  While the subscription is disabled (the page is
\* mounted and its run is completed or a demo run), no socket of the page
\* is connecting or open, no reconnect timer is pending and the fallback
\* poll interval is not armed.
C14_TerminalState ==
  (page.mounted /\ (page.isCompleted \/ page.isDemo)) =>
    /\ LiveSockets = {}
    /\ DOMAIN browser.timeouts = {}
    /\ browser.polls = {}
    /\ page.wsRef = NoRef

\* C18: for a demo run the page opens no socket, sends no subscribe and does
\* not arm the fallback poll interval.  No socket was opened for a demo run
\* id or has subscribed to one; and while the page shows a demo run the
\* interval is not armed and no step opens a socket.
C18_DemoStaysOffTheSocket ==
  [][/\ \A ws \in DOMAIN browser'.sockets :
          /\ ~IsDemo(browser'.sockets[ws].forRun)
          /\ ~IsDemo(browser'.sockets[ws].sub)
     /\ (page'.mounted /\ page'.runId /= NullId /\ IsDemo(page'.runId)) =>
          /\ browser'.polls = {}
          /\ page'.pollingRef = NoRef
          /\ page'.wsRef = NoRef
          /\ \A ws \in DOMAIN browser'.sockets :
               /\ ws \in DOMAIN browser.sockets
               /\ browser'.sockets[ws].readyState /= "CONNECTING"
                    \/ browser.sockets[ws].readyState = "CONNECTING"]_vars

\* the page went from a connected run to a demo run, whose state it has
\* fetched, while the socket of the earlier run is still closing
C18_Witness ==
  /\ page.mounted
  /\ page.runId = demo_run_1
  /\ event.op = "page"
  /\ event.what = "fetched"
  /\ \E ws \in DOMAIN browser.sockets :
       browser.sockets[ws].readyState = "CLOSING"

\* the runs whose subscriber set holds the socket
MemberOf(subs, ws) == {runId \in RunIds : ws \in Members(subs, runId)}

\* the snapshot of the run, if one is cached
Cached(cache, runId) ==
  IF runId \in DOMAIN cache THEN <<cache[runId]>> ELSE <<>>

C22_OnlyRequestedSubscriptions ==
  [][/\ \A ws \in Conns :
          readyState'[ws] = "CLOSED" => MemberOf(subscriptions', ws) = {}
     /\ event'.op = "connection" => MemberOf(subscriptions', event'.conn) = {}
     /\ \A ws \in Conns, runId \in RunIds :
          (/\ ws \in Members(subscriptions', runId)
           /\ ws \notin Members(subscriptions, runId))
          => /\ event'.op = "subscribe"
             /\ event'.conn = ws
             /\ event'.runId = runId
             /\ readyState'[ws] = "OPEN"
     /\ event'.op = "unsubscribe" =>
          event'.conn \notin Members(subscriptions', event'.runId)]_vars

\* a socket that was subscribed to both runs has unsubscribed from one while
\* the other socket stays subscribed to it
C22_Witness ==
  /\ event.op = "unsubscribe"
  /\ MemberOf(subscriptions, event.conn) /= {}
  /\ event.runId \notin MemberOf(subscriptions, event.conn)
  /\ Members(subscriptions, event.runId) /= {}

\* C23: per-run broadcast ordering.  The verification service moves run_abc
\* from S_base on to S_conf and never back; a socket whose last run_update
\* for run_abc carried S_conf is not sent S_base afterwards (the history of
\* a socket starts anew when it connects).
C23_BroadcastOrder ==
  [][\A ws \in Conns :
       LastSent(ws, S_conf) => ~LastSent(ws, S_base)']_vars

\* the run id or the enabled flag the hook is given changes in this step
HookPropsChange ==
  \/ page'.seen.hookRunId /= page.seen.hookRunId
  \/ page'.seen.enabled /= page.seen.enabled

\* C24: unsubscribe before close.  In a step in which the page, still
\* mounted, disables the subscription or changes the run id, every socket
\* of the page that was open is sent an unsubscribe that carries the run id
\* it was subscribed to, and is closed.
C24_UnsubscribeOldRun ==
  [][(page'.mounted /\ HookPropsChange) =>
       \A ws \in DOMAIN browser.sockets :
         browser.sockets[ws].readyState = "OPEN" =>
           /\ ws \in DOMAIN browser'.sockets
           /\ browser'.sockets[ws].readyState = "CLOSING"
           /\ browser'.sockets[ws].unsub = browser.sockets[ws].sub]_vars

\* the hook is enabled with the run id runId
Enabled(runId) ==
  /\ page.mounted
  /\ page.runId = runId
  /\ ~page.isDemo
  /\ ~page.isCompleted

\* C25: reconnect and resubscribe.  The step in which a socket of the page
\* closes while the hook is enabled with a run id leaves a reconnect timeout
\* pending; the step in which a socket opens subscribes it to the run id the
\* hook has then; and if from some point on the hook stays enabled with one
\* run id and no socket closes, then from some point on a socket of the page
\* is open and subscribed to that run.
C25_ReconnectAndResubscribe ==
  /\ [][/\ (/\ event'.op = "page"
            /\ event'.what = "close"
            /\ page'.enabledRef
            /\ page'.runIdRef /= NullId)
           => /\ page'.reconnectTimeoutRef /= NoRef
              /\ page'.reconnectTimeoutRef \in DOMAIN browser'.timeouts
        /\ (event'.op = "page" /\ event'.what = "open") =>
             \A ws \in DOMAIN browser'.sockets :
               (/\ browser'.sockets[ws].readyState = "OPEN"
                /\ browser.sockets[ws].readyState = "CONNECTING")
               => browser'.sockets[ws].sub = page'.runIdRef]_vars
  /\ \A runId \in ReconnectRuns :
       <>[](Enabled(runId) /\ event.op = "page" /\ event.what /= "close")
         => <>[]Connected

\* the only socket of the page has closed while the hook is enabled with a
\* run id, and a reconnect timeout is pending
C25_Witness ==
  /\ event.op = "page"
  /\ event.what = "close"
  /\ Watching
  /\ browser.sockets = <<>>
  /\ page.reconnectTimeoutRef \in DOMAIN browser.timeouts

\* C26: no redundant broadcast.  A socket that has stayed open and
\* subscribed to a run since it was last sent a run_update for it is not
\* sent a run_update that carries the same state again, whatever eviction
\* timers fire in between.
C26_NoRedundantBroadcast ==
  [][event'.op = "poll" =>
       \A ws \in Conns :
         (event'.sent[ws] /= <<>> /\ event'.runId \in DOMAIN delivered[ws])
         => delivered[ws][event'.runId] /= event'.sent[ws][1]]_vars

\* C27: no control message of one client stops the polling of the runs of
\* other clients.  Whatever the clients have sent, a tick that has ended
\* has fetched every run id it read at its start that is a string and no
\* demo run.
C27_OthersStillPolled ==
  (event.op \in {"tick", "poll"} /\ event.outcome[1] \in {"done", "threw"})
  => \A i \in 1..Len(event.history[1].ids) :
       LET runId == event.history[1].ids[i]
       IN (IsString(runId) /\ ~IsDemo(runId))
          => runId \in Range(event.history[1].fetched)

\* C28: the hook owns at most one socket that is connecting or open, and
\* wsRef and isConnected describe it: wsRef is that socket, isConnected says
\* whether it is open, and with no such socket isConnected is false (the
\* flag is state of the mounted component).
C28_OneLiveSocket ==
  /\ Cardinality(LiveSockets) <= 1
  /\ \A ws \in LiveSockets :
       /\ page.wsRef = ws
       /\ page.mounted =>
            page.isConnected = (browser.sockets[ws].readyState = "OPEN")
  /\ (page.mounted /\ LiveSockets = {}) => ~page.isConnected

\* C30: for a run that is no demo run the page comes to treat the run as
\* completed only by a state with status completed that the verification
\* service or the relay reported: by the result of a fetch that succeeded
\* or by a run_update, never by a fetch that failed.
C30_CompletedOnlyWhenReported ==
  [][(/\ page'.mounted
      /\ page'.runId /= NullId
      /\ ~IsDemo(page'.runId)
      /\ page'.runId = page.runId
      /\ page'.isCompleted
      /\ ~page.isCompleted)
     => event'.what \in {"fetched", "polled", "message"}]_vars

\* the calls in flight without the call k
Without(fetches, k) ==
  SubSeq(fetches, 1, k - 1) \o SubSeq(fetches, k + 1, Len(fetches))

\* C29: the result of a fallback poll does not overwrite a newer pushed
\* state.  When the answer arrives to a getRun() call of the poll interval
\* that was in flight while the page applied a run_update, the state the
\* page shows stays as it is: a run shown as completed stays completed and
\* one shown as unfinished stays unfinished.
C29_PushNotOverwritten ==
  [][\A k \in 1..Len(browser.fetches) :
       (/\ event'.what \in {"polled", "failed"}
        /\ browser'.fetches = Without(browser.fetches, k)
        /\ browser.fetches[k].overtaken
        /\ page'.runId = page.runId)
       => page'.isCompleted = page.isCompleted]_vars

====
